---- MODULE Spec2Model ----
(***************************************************************************)
(* Model of from_CC_to_GIS.py and of the database helpers it is built on:  *)
(* the reconciliation pass upsert_blocks_and_parcels (Spec), the column    *)
(* mapping map_json_to_gdb_columns (SpecMap), main with its extraction     *)
(* stage (SpecMain), transactional_cursor (SpecTx),                        *)
(* copy_table_data_cross_db (SpecCopy) and get_sql_from_columns_names with *)
(* create_table (SpecSchema).  Each specification runs one of them and     *)
(* leaves the variables of the others idle.                                *)
(*                                                                         *)
(* The reconciliation pass: two full scans build key->record dictionaries, *)
(* the source dictionary is walked with one update or insert per key, then *)
(* a second cursor pass over the destination deletes the rows whose key is *)
(* only in the destination.                                                *)
(*                                                                         *)
(* A row is the tuple a cursor yields for field_names.  Python position n  *)
(* is TLA+ index n+1; the 26 attribute columns after position 3 are        *)
(* folded into one column.  Both tables have exactly the columns of        *)
(* field_names (the feature class is created with them, and the            *)
(* destination is only ever read and written through them).                *)
(***************************************************************************)
EXTENDS Integers, Sequences, FiniteSets, TLC

\* ---------------------------------------------------------------- bounds
MaxSrc == 2
MaxDst == 2

\* the composite keys the source rows and the destination rows are drawn
\* from (one key only in the source, one in both, one only in the
\* destination), and the non-key payloads (SHAPE@, attributes) rows carry
SrcKeys == {<<1, 1, 1>>, <<2, 1, 1>>}
DstKeys == {<<2, 1, 1>>, <<2, 1, 2>>}
Payloads == {<<"g1", "A">>, <<"g2", "B">>}

\* ---------------------------------------------------------------- schema
\* field_names as passed by the entry point (positions 0..3 and one
\* representative of the attribute columns that follow)
FieldNamesMain == <<"SHAPE@", "parcel_id", "gush_num", "gush_suffix", "parcel">>

\* a field list whose positions 1..3 are the columns the where clause and
\* the log messages of upsert_blocks_and_parcels name
FieldNamesKeyed == <<"SHAPE@", "block_id", "parcel_id", "suffix_id", "parcel">>

\* the columns the update's where clause filters on, in order
WhereCols == <<"block_id", "parcel_id", "suffix_id">>

Py(t, n) == t[n + 1]

RowOf(k, p) == <<p[1], k[1], k[2], k[3], p[2]>>

SrcRows == {RowOf(k, p) : k \in SrcKeys, p \in Payloads}
DstRows == {RowOf(k, p) : k \in DstKeys, p \in Payloads}

SeqsUpTo(S, n) == UNION {[1..m -> S] : m \in 0..n}

Range(s) == {s[n] : n \in DOMAIN s}

\* the dictionary key of a scanned row: (row[1], row[2], row[3])
KeyOf(row) == <<Py(row, 1), Py(row, 2), Py(row, 3)>>

\* ------------------------------------------------------------ dictionaries
\* A Python dict as the sequence of its items in insertion order.
DictKeys(d) == {d[n][1] : n \in DOMAIN d}

DictPut(d, k, v) ==
    IF k \in DictKeys(d)
    THEN [n \in DOMAIN d |-> IF d[n][1] = k THEN <<k, v>> ELSE d[n]]
    ELSE Append(d, <<k, v>>)

RECURSIVE ScanInto(_, _)
ScanInto(d, rows) ==
    IF rows = <<>> THEN d
    ELSE ScanInto(DictPut(d, KeyOf(Head(rows)), Head(rows)), Tail(rows))

DictFromScan(rows) == ScanInto(<<>>, rows)

\* ------------------------------------------------------------------ state
VARIABLES
    field_names,      \* the field list of this run (parameter)
    src,              \* rows of the source feature class, in cursor order
    dst,              \* rows of the destination table, in cursor order
    pc,               \* position in upsert_blocks_and_parcels
    dic_dst,          \* blocks_and_parcels_dic_destination
    dic_src,          \* blocks_and_parcels_dic_source
    i,                \* index of the next item of dic_src to upsert
    j,                \* position of the delete cursor in dst
    to_delete_keys,
    success_count,
    fail_count,
    delete_count,
    \* history of the run, for stating the properties
    run,              \* 1 for the first pass, 2 for the repeated pass
    dst0,             \* dst when the current pass started
    inserts,          \* insertRow calls that succeeded in this pass
    upsert_errors,    \* keys whose insert or update raised in this pass
    env_errors,       \* keys whose insert or update was failed by the store
    delete_errors,    \* keys for which deleteRow raised in this pass
    delete_error_log, \* number of "Error deleting" log records of this pass
    conn_failed,      \* a connectivity failure has occurred in this pass
    clean1            \* the first pass completed without any caught failure

\* ---- map_json_to_gdb_columns (one call)
VARIABLES
    json_data,        \* the argument: a JSON object, as a function from its keys
    map_result,       \* the dictionary returned
    map_pc            \* "call" before the call, "returned" after it

mapVars == <<json_data, map_result, map_pc>>

\* ---- transactional_cursor (one use as a context manager)
VARIABLES
    tx_pc,            \* position in transactional_cursor and its body
    tx_body,          \* the statements the body has still to execute
    tx_log,           \* the statements executed on the cursor, with their outcome
    tx_origin,        \* where the first exception of this use was raised
    tx_exc            \* the exception that reaches the caller

txVars == <<tx_pc, tx_body, tx_log, tx_origin, tx_exc>>

\* the state of the other operations of the model
\* ---- DatabaseOperations.copy_table_data_cross_db (one call)
VARIABLES
    cp_pc,            \* position in copy_table_data_cross_db
    cp_columns,       \* the columns argument (<<>> when not given)
    cp_where,         \* the where_clause argument ("" when not given)
    cp_table,         \* the number of rows of the source table the query selects
    cp_source,        \* the source connection: "none", "open" or "closed"
    cp_target,        \* the target connection: "none", "open" or "closed"
    cp_select,        \* the SELECT statement executed on the source
    cp_rows,          \* the rows fetched from the source
    cp_pending,       \* the rows inserted on the target and not yet committed
    cp_copied,        \* the rows committed on the target
    cp_exc            \* the exception that is propagating

copyVars == <<cp_pc, cp_columns, cp_where, cp_table, cp_source, cp_target,
              cp_select, cp_rows, cp_pending, cp_copied, cp_exc>>

\* ---- DatabaseOperations.get_sql_from_columns_names, then create_table
VARIABLES
    sc_pc,            \* position in the two calls
    sc_catalog,       \* information_schema.columns: <<schema, table>> -> column names
    sc_scheme,        \* the scheme_name argument
    sc_table,         \* the table_name argument
    sc_fields,        \* the field_types argument, as (name, type) pairs in dict order
    sc_query,         \* the schema query: "none", "answered" or "raised"
    sc_existing,      \* existing_columns, the rows the schema query returned
    sc_sql,           \* the statement get_sql_from_columns_names returned
    sc_executed,      \* the statements create_table executed
    sc_exc            \* the exception raised to the caller

schemaVars == <<sc_pc, sc_catalog, sc_scheme, sc_table, sc_fields, sc_query, sc_existing,
                sc_sql, sc_executed, sc_exc>>

\* ---- main (the extraction stage, then the call of upsert_blocks_and_parcels)
VARIABLES
    m_pc,                 \* position in main
    FromCC,               \* the flag that selects the extraction stage
    gdb_name,             \* the gdb_name argument
    results,              \* the rows the catalog query returns
    res_i,                    \* the index in results of the row being processed
    fs,                   \* feature class path -> whether it exists, and its rows
    feature_class_path,   \* the path create_gdb_and_feature_class returned
    read_path,            \* the path passed to upsert_blocks_and_parcels as its source
    db_open,              \* the catalog connections that are established and not closed
    db_handle,            \* db_ops._connection (0 for None)
    db_made,              \* the number of catalog connections established so far
    inserted_count,
    error_count,
    xoid_counter,         \* generate_xoid.counter
    insert_failed,        \* the indices of the rows whose insertRow raised
    m_after               \* what follows the finally clause

mainVars == <<m_pc, FromCC, gdb_name, results, res_i, fs, feature_class_path, read_path,
              db_open, db_handle, db_made, inserted_count, error_count,
              xoid_counter, insert_failed, m_after>>

others == <<mapVars, txVars, copyVars, schemaVars, mainVars>>


\* the variables of upsert_blocks_and_parcels
upsertVars == <<field_names, src, dst, pc, dic_dst, dic_src, i, j, to_delete_keys,
                success_count, fail_count, delete_count, run, dst0, inserts,
                upsert_errors, env_errors, delete_errors, delete_error_log,
                conn_failed, clean1>>

vars == <<upsertVars, others>>

\* what the actions of one group leave alone
notMap == <<upsertVars, txVars, copyVars, schemaVars, mainVars>>
notTx == <<upsertVars, mapVars, copyVars, schemaVars, mainVars>>
notCopy == <<upsertVars, mapVars, txVars, schemaVars, mainVars>>
notSchema == <<upsertVars, mapVars, txVars, copyVars, mainVars>>
notMain == <<upsertVars, mapVars, txVars, copyVars, schemaVars>>

\* what a reconciliation pass leaves alone
inputs == <<field_names, src, others>>
counters == <<success_count, fail_count, delete_count>>
history == <<run, dst0, inserts, upsert_errors, env_errors, delete_errors,
             delete_error_log, conn_failed, clean1>>

\* kinds of exception a store operation can raise
ErrorKinds == {"row_error", "conn_error"}

\* ------------------------------------------------------------ idle states
\* the value of a variable that holds nothing yet
None == "None"

\* no call of map_json_to_gdb_columns is in progress
MapIdle ==
    /\ json_data = <<>>
    /\ map_result = <<>>
    /\ map_pc = "idle"

\* no use of transactional_cursor is in progress
TxIdle ==
    /\ tx_pc = "idle"
    /\ tx_body = <<>>
    /\ tx_log = <<>>
    /\ tx_origin = "none"
    /\ tx_exc = "none"

\* no call of copy_table_data_cross_db is in progress
CopyIdle ==
    /\ cp_pc = "idle"
    /\ cp_columns = <<>>
    /\ cp_where = ""
    /\ cp_table = 0
    /\ cp_source = "none"
    /\ cp_target = "none"
    /\ cp_select = <<>>
    /\ cp_rows = 0
    /\ cp_pending = 0
    /\ cp_copied = 0
    /\ cp_exc = "none"

\* no call of get_sql_from_columns_names or create_table is in progress
SchemaIdle ==
    /\ sc_pc = "idle"
    /\ sc_catalog = <<>>
    /\ sc_scheme = ""
    /\ sc_table = ""
    /\ sc_fields = <<>>
    /\ sc_query = "none"
    /\ sc_existing = <<>>
    /\ sc_sql = <<>>
    /\ sc_executed = <<>>
    /\ sc_exc = "none"

\* main is not running
MainIdle ==
    /\ m_pc = "idle"
    /\ FromCC = FALSE
    /\ gdb_name = <<>>
    /\ results = <<>>
    /\ res_i = 1
    /\ fs = <<>>
    /\ feature_class_path = <<>>
    /\ read_path = <<>>
    /\ db_open = {}
    /\ db_handle = 0
    /\ db_made = 0
    /\ inserted_count = 0
    /\ error_count = 0
    /\ xoid_counter = 0
    /\ insert_failed = {}
    /\ m_after = "none"

OthersIdle == MapIdle /\ TxIdle /\ CopyIdle /\ SchemaIdle /\ MainIdle

\* no reconciliation pass is in progress
UpsertIdle ==
    /\ field_names = FieldNamesMain
    /\ src = <<>>
    /\ dst = <<>>
    /\ pc = "idle"
    /\ dic_dst = <<>>
    /\ dic_src = <<>>
    /\ i = 1
    /\ j = 1
    /\ to_delete_keys = {}
    /\ success_count = 0
    /\ fail_count = 0
    /\ delete_count = 0
    /\ run = 1
    /\ dst0 = <<>>
    /\ inserts = 0
    /\ upsert_errors = {}
    /\ env_errors = {}
    /\ delete_errors = {}
    /\ delete_error_log = 0
    /\ conn_failed = FALSE
    /\ clean1 = FALSE

\* everything but one group is idle
NotMapIdle == UpsertIdle /\ TxIdle /\ CopyIdle /\ SchemaIdle /\ MainIdle
NotTxIdle == UpsertIdle /\ MapIdle /\ CopyIdle /\ SchemaIdle /\ MainIdle
NotCopyIdle == UpsertIdle /\ MapIdle /\ TxIdle /\ SchemaIdle /\ MainIdle
NotSchemaIdle == UpsertIdle /\ MapIdle /\ TxIdle /\ CopyIdle /\ MainIdle
NotMainIdle == UpsertIdle /\ MapIdle /\ TxIdle /\ CopyIdle /\ SchemaIdle

Init ==
    /\ field_names \in {FieldNamesMain, FieldNamesKeyed}
    /\ src \in SeqsUpTo(SrcRows, MaxSrc)
    /\ dst \in SeqsUpTo(DstRows, MaxDst)
    /\ pc = "scan_dst"
    /\ dic_dst = <<>>
    /\ dic_src = <<>>
    /\ i = 1
    /\ j = 1
    /\ to_delete_keys = {}
    /\ success_count = 0
    /\ fail_count = 0
    /\ delete_count = 0
    /\ run = 1
    /\ dst0 = dst
    /\ inserts = 0
    /\ upsert_errors = {}
    /\ env_errors = {}
    /\ delete_errors = {}
    /\ delete_error_log = 0
    /\ conn_failed = FALSE
    /\ clean1 = FALSE
    /\ OthersIdle

\* ------------------------------------------------------------------ scans
\* with SearchCursor(SDE_path): fill blocks_and_parcels_dic_destination
ScanDestination ==
    /\ pc = "scan_dst"
    /\ dic_dst' = DictFromScan(dst)
    /\ pc' = "scan_src"
    /\ UNCHANGED <<inputs, dst, dic_src, i, j, to_delete_keys, counters, history>>

\* a source scan that inserts the rows with new keys while it reads
ScanSourcePipelined ==
    /\ pc = "scan_src"
    /\ dic_src' = DictFromScan(src)
    /\ dst' = dst \o SelectSeq(src, LAMBDA row : KeyOf(row) \notin DictKeys(dic_dst))
    /\ pc' = "upsert"
    /\ UNCHANGED <<inputs, dic_dst, i, j, to_delete_keys, counters, history>>

\* with SearchCursor(GDB_path): fill blocks_and_parcels_dic_source
ScanSource ==
    /\ pc = "scan_src"
    /\ dic_src' = DictFromScan(src)
    /\ pc' = "upsert"
    /\ UNCHANGED <<inputs, dst, dic_dst, i, j, to_delete_keys, counters, history>>

\* an exception raised by either scan reaches the outer handler, which
\* logs it and re-raises
ScanRaises ==
    /\ pc \in {"scan_dst", "scan_src"}
    /\ pc' = "raised"
    /\ conn_failed' = TRUE
    /\ UNCHANGED <<inputs, dst, dic_dst, dic_src, i, j, to_delete_keys, counters,
                   run, dst0, inserts, upsert_errors, env_errors, delete_errors,
                   delete_error_log, clean1>>

\* ------------------------------------------------------- update or insert
\* where_clause = f"block_id = {bp[1]} AND parcel_id = {bp[2]} AND suffix_id = {bp[3]}"
WhereClause(bp) == [n \in 1..3 |-> [col |-> WhereCols[n], val |-> Py(bp, n)]]

\* the position of a column in the rows of a table with columns fields
ColumnIndex(fields, c) == CHOOSE n \in DOMAIN fields : fields[n] = c

\* a where clause can be evaluated only over columns the table has
WhereValid(fields, wc) == \A n \in DOMAIN wc : wc[n].col \in Range(fields)

RowMatches(fields, wc, row) ==
    \A n \in DOMAIN wc : row[ColumnIndex(fields, wc[n].col)] = wc[n].val

Matching(fields, wc, table) ==
    {m \in DOMAIN table : RowMatches(fields, wc, table[m])}

Min(S) == CHOOSE x \in S : \A y \in S : x <= y

\* an update that adds the record instead of overwriting the matched row
UpdateByAppending(fields, wc, table, bp) == Append(table, bp)

\* for row in cursor: cursor.updateRow(bp); break
UpdateFirstMatch(fields, wc, table, bp) ==
    IF Matching(fields, wc, table) = {} THEN table
    ELSE [table EXCEPT ![Min(Matching(fields, wc, table))] = bp]

\* an insert that loses the attribute columns of the record
InsertKeyOnly(table, bp) == Append(table, [bp EXCEPT ![1] = "g0", ![5] = "-"])

\* cursor.insertRow(bp)
InsertInto(table, bp) == Append(table, bp)

CurKey == dic_src[i][1]
CurBp == dic_src[i][2]

InUpsertLoop == pc = "upsert" /\ i <= Len(dic_src)

\* key in destination dictionary: UpdateCursor with the where clause
UpdateRow ==
    /\ InUpsertLoop
    /\ CurKey \in DictKeys(dic_dst)
    /\ WhereValid(field_names, WhereClause(CurBp))
    /\ dst' = UpdateFirstMatch(field_names, WhereClause(CurBp), dst, CurBp)
    /\ success_count' = success_count + 1
    /\ i' = i + 1
    /\ UNCHANGED <<inputs, pc, dic_dst, dic_src, j, to_delete_keys, fail_count,
                   delete_count, history>>

\* key not in destination dictionary: InsertCursor
InsertRow ==
    /\ InUpsertLoop
    /\ CurKey \notin DictKeys(dic_dst)
    /\ dst' = InsertInto(dst, CurBp)
    /\ success_count' = success_count + 1
    /\ inserts' = inserts + 1
    /\ i' = i + 1
    /\ UNCHANGED <<inputs, pc, dic_dst, dic_src, j, to_delete_keys, fail_count,
                   delete_count, run, dst0, upsert_errors, env_errors,
                   delete_errors, delete_error_log, conn_failed, clean1>>

\* a handler that forgets to count the failure
UpsertFailedUncounted(key) ==
    /\ upsert_errors' = upsert_errors \cup {key}
    /\ i' = i + 1
    /\ UNCHANGED <<inputs, dst, pc, dic_dst, dic_src, j, to_delete_keys,
                   counters, run, dst0, inserts,
                   delete_errors, delete_error_log, clean1>>

\* a handler that counts the failure and then lets it end the pass
UpsertFailedAborts(key) ==
    /\ fail_count' = fail_count + 1
    /\ upsert_errors' = upsert_errors \cup {key}
    /\ pc' = "raised"
    /\ UNCHANGED <<inputs, dst, i, dic_dst, dic_src, j, to_delete_keys,
                   success_count, delete_count, run, dst0, inserts,
                   delete_errors, delete_error_log, clean1>>

\* except Exception: logger.exception(...); fail_count += 1; continue
UpsertFailed(key) ==
    /\ fail_count' = fail_count + 1
    /\ upsert_errors' = upsert_errors \cup {key}
    /\ i' = i + 1
    /\ UNCHANGED <<inputs, dst, pc, dic_dst, dic_src, j, to_delete_keys,
                   success_count, delete_count, run, dst0, inserts,
                   delete_errors, delete_error_log, clean1>>

\* the where clause names a column the table does not have: the update
\* cursor raises, and the handler of the loop body catches it
UpdateRaisesInvalidWhere ==
    /\ InUpsertLoop
    /\ CurKey \in DictKeys(dic_dst)
    /\ ~WhereValid(field_names, WhereClause(CurBp))
    /\ UpsertFailed(CurKey)
    /\ UNCHANGED <<env_errors, conn_failed>>

\* the store rejects the insert or update of this record (a row-level
\* error) or cannot be reached (a connectivity error): the same handler
UpsertRaises(kind) ==
    /\ InUpsertLoop
    /\ UpsertFailed(CurKey)
    /\ env_errors' = env_errors \cup {CurKey}
    /\ conn_failed' = (conn_failed \/ kind = "conn_error")

\* a reversed set difference
ToDeleteKeysReversed(dd, ds) == DictKeys(ds) \ DictKeys(dd)

\* set(destination.keys()) - set(source.keys())
ToDeleteKeys(dd, ds) == DictKeys(dd) \ DictKeys(ds)

\* the loop over the source dictionary ends: compute the keys to delete
\* and open the delete cursor only if there are any
UpsertLoopEnds ==
    /\ pc = "upsert"
    /\ i > Len(dic_src)
    /\ to_delete_keys' = ToDeleteKeys(dic_dst, dic_src)
    /\ pc' = IF to_delete_keys' # {} THEN "delete" ELSE "done"
    /\ j' = 1
    /\ UNCHANGED <<inputs, dst, dic_dst, dic_src, i, counters, history>>

\* ----------------------------------------------------------- delete pass
RemoveAt(table, n) == [m \in 1..(Len(table) - 1) |->
                          IF m < n THEN table[m] ELSE table[m + 1]]

InDeleteLoop == pc = "delete" /\ j <= Len(dst)

\* key not in to_delete_keys: next row
DeleteSkipsRow ==
    /\ InDeleteLoop
    /\ KeyOf(dst[j]) \notin to_delete_keys
    /\ j' = j + 1
    /\ UNCHANGED <<inputs, dst, pc, dic_dst, dic_src, i, to_delete_keys,
                   counters, history>>

\* a deletion that is not counted
DeleteRowUncounted ==
    /\ InDeleteLoop
    /\ KeyOf(dst[j]) \in to_delete_keys
    /\ dst' = RemoveAt(dst, j)
    /\ UNCHANGED <<inputs, pc, dic_dst, dic_src, i, j, to_delete_keys,
                   counters, history>>

\* delete_cursor.deleteRow(); delete_count += 1
DeleteRow ==
    /\ InDeleteLoop
    /\ KeyOf(dst[j]) \in to_delete_keys
    /\ dst' = RemoveAt(dst, j)
    /\ delete_count' = delete_count + 1
    /\ UNCHANGED <<inputs, pc, dic_dst, dic_src, i, j, to_delete_keys,
                   success_count, fail_count, history>>

\* a handler that counts the failed deletion in fail_count
DeleteRowRaisesCounted(kind) ==
    /\ InDeleteLoop
    /\ KeyOf(dst[j]) \in to_delete_keys
    /\ delete_errors' = delete_errors \cup {KeyOf(dst[j])}
    /\ delete_error_log' = delete_error_log + 1
    /\ conn_failed' = (conn_failed \/ kind = "conn_error")
    /\ fail_count' = fail_count + 1
    /\ j' = j + 1
    /\ UNCHANGED <<inputs, dst, pc, dic_dst, dic_src, i, to_delete_keys,
                   success_count, delete_count, run, dst0, inserts,
                   upsert_errors, env_errors, clean1>>

\* deleteRow raises: except Exception: logger.exception(...); continue
DeleteRowRaises(kind) ==
    /\ InDeleteLoop
    /\ KeyOf(dst[j]) \in to_delete_keys
    /\ delete_errors' = delete_errors \cup {KeyOf(dst[j])}
    /\ delete_error_log' = delete_error_log + 1
    /\ conn_failed' = (conn_failed \/ kind = "conn_error")
    /\ j' = j + 1
    /\ UNCHANGED <<inputs, dst, pc, dic_dst, dic_src, i, to_delete_keys,
                   counters, run, dst0, inserts, upsert_errors, env_errors,
                   clean1>>

\* opening or advancing the delete cursor raises: outside the inner try,
\* so the outer handler logs and re-raises
DeleteCursorRaises ==
    /\ pc = "delete"
    /\ pc' = "raised"
    /\ conn_failed' = TRUE
    /\ UNCHANGED <<inputs, dst, dic_dst, dic_src, i, j, to_delete_keys, counters,
                   run, dst0, inserts, upsert_errors, env_errors, delete_errors,
                   delete_error_log, clean1>>

\* the delete cursor is exhausted
DeleteLoopEnds ==
    /\ pc = "delete"
    /\ j > Len(dst)
    /\ pc' = "done"
    /\ UNCHANGED <<inputs, dst, dic_dst, dic_src, i, j, to_delete_keys, counters,
                   history>>

\* ------------------------------------------------------------ second pass
\* the pass is run again on the same source and the destination as the
\* first pass left it
RunAgain ==
    /\ pc = "done"
    /\ run = 1
    /\ run' = 2
    /\ clean1' = (fail_count = 0 /\ delete_error_log = 0)
    /\ pc' = "scan_dst"
    /\ dic_dst' = <<>>
    /\ dic_src' = <<>>
    /\ i' = 1
    /\ j' = 1
    /\ to_delete_keys' = {}
    /\ success_count' = 0
    /\ fail_count' = 0
    /\ delete_count' = 0
    /\ dst0' = dst
    /\ inserts' = 0
    /\ upsert_errors' = {}
    /\ env_errors' = {}
    /\ delete_errors' = {}
    /\ delete_error_log' = 0
    /\ conn_failed' = FALSE
    /\ UNCHANGED <<inputs, dst>>

Next ==
    \/ ScanDestination
    \/ ScanSource
    \/ ScanRaises
    \/ UpdateRow
    \/ InsertRow
    \/ UpdateRaisesInvalidWhere
    \/ \E kind \in ErrorKinds : UpsertRaises(kind)
    \/ UpsertLoopEnds
    \/ DeleteSkipsRow
    \/ DeleteRow
    \/ \E kind \in ErrorKinds : DeleteRowRaises(kind)
    \/ DeleteCursorRaises
    \/ DeleteLoopEnds
    \/ RunAgain

Spec == Init /\ [][Next]_vars

\* =============================================== map_json_to_gdb_columns
\* mapping: JSON key -> GDB column, in the order of the dict literal
Mapping == <<
    <<"PARCEL_ID", "parcel_id">>,
    <<"GUSH_NUM", "gush_num">>,
    <<"GUSH_SUFFI", "gush_suffix">>,
    <<"PARCEL", "parcel">>,
    <<"LEGAL_AREA", "legal_area">>,
    <<"STATUS", "status">>,
    <<"STATUS_TEX", "status_text">>,
    <<"LOCALITY_I", "locality_id">>,
    <<"LOCALITY_N", "locality_name">>,
    <<"REG_MUN_ID", "reg_mun_id">>,
    <<"REG_MUN_NA", "reg_mun_name">>,
    <<"COUNTY_ID", "county_id">>,
    <<"COUNTY_NAM", "county_name">>,
    <<"REGION_ID", "region_id">>,
    <<"REGION_NAM", "region_name">>,
    <<"TALAR_NUMB", "talar_numb">>,
    <<"TALAR_YEAR", "talar_year">>,
    <<"SYS_DATE", "idkun_talar_date">> >>

\* gdb_columns
GdbColumns == <<
    "parcel_id", "gush_num", "gush_suffix", "parcel", "pnumtype", "pnumtype_text",
    "legal_area", "status", "status_text", "locality_id", "locality_name",
    "reg_mun_id", "reg_mun_name", "county_id", "county_name", "region_id",
    "region_name", "wp", "wp_status", "wp_status_text", "talar_numb",
    "talar_year", "idkun_talar_date", "xoid", "gparcel", "globalid",
    "gdb_archive_oid", "gdb_from_date", "gdb_to_date" >>

\* d[k] = v on a Python dict: the key is added when it is not there
DictSet(d, k, v) == (k :> v) @@ d

\* an item step that stores under the JSON key instead of the GDB column
MapItemUnderJsonKey(result, jd, item) ==
    IF item[1] \in DOMAIN jd THEN DictSet(result, item[1], jd[item[1]]) ELSE result

\* if json_key in json_data: result[gdb_col] = json_data[json_key]
MapItem(result, jd, item) ==
    IF item[1] \in DOMAIN jd THEN DictSet(result, item[2], jd[item[1]]) ELSE result

RECURSIVE MapItems(_, _, _)
MapItems(result, jd, items) ==
    IF items = <<>> THEN result
    ELSE MapItems(MapItem(result, jd, Head(items)), jd, Tail(items))

\* result = {col: None for col in gdb_columns}; the loop over mapping.items()
MapJsonToGdbColumns(jd) ==
    MapItems([col \in Range(GdbColumns) |-> None], jd, Mapping)

\* the JSON keys and values the payloads of the model are built from: mapped
\* keys, a key that no mapping entry names, and the name of a GDB column
JsonKeys == {"PARCEL_ID", "GUSH_SUFFI", "SYS_DATE", "OBJECTID", "parcel_id"}
JsonValues == {"v1", "v2"}

JsonObjects == UNION {[D -> JsonValues] : D \in SUBSET JsonKeys}

InitMap ==
    /\ NotMapIdle
    /\ json_data \in JsonObjects
    /\ map_result = <<>>
    /\ map_pc = "call"

MapCall ==
    /\ map_pc = "call"
    /\ map_result' = MapJsonToGdbColumns(json_data)
    /\ map_pc' = "returned"
    /\ UNCHANGED <<json_data, notMap>>

NextMap == MapCall

SpecMap == InitMap /\ [][NextMap]_vars

\* ================================================== transactional_cursor
MaxBody == 2

\* the statements a body executes on the cursor it is given
BodyStatements == {"INSERT", "UPDATE"}

Executed(stmt, ok) == [stmt |-> stmt, ok |-> ok]

InitTx ==
    /\ NotTxIdle
    /\ tx_pc = "enter"
    /\ tx_body \in SeqsUpTo(BodyStatements, MaxBody)
    /\ tx_log = <<>>
    /\ tx_origin = "none"
    /\ tx_exc = "none"

\* with conn.cursor() as cursor
TxOpenCursor ==
    /\ tx_pc = "enter"
    /\ tx_pc' = "begin"
    /\ UNCHANGED <<tx_body, tx_log, tx_origin, tx_exc, notTx>>

\* conn.cursor() raises: nothing was executed, the exception reaches the caller
TxOpenCursorRaises ==
    /\ tx_pc = "enter"
    /\ tx_pc' = "raised"
    /\ tx_origin' = "cursor"
    /\ tx_exc' = "cursor"
    /\ UNCHANGED <<tx_body, tx_log, notTx>>

\* cursor.execute("BEGIN TRANSACTION"); an exception goes to the handler
TxBegin(ok) ==
    /\ tx_pc = "begin"
    /\ tx_log' = Append(tx_log, Executed("BEGIN", ok))
    /\ tx_pc' = IF ok THEN "body" ELSE "handler"
    /\ tx_origin' = IF ok THEN tx_origin ELSE "begin"
    /\ UNCHANGED <<tx_body, tx_exc, notTx>>

\* yield cursor: the body executes its next statement; an exception of the
\* body is thrown into the generator at the yield, inside the try
TxBodyExecutes(ok) ==
    /\ tx_pc = "body"
    /\ tx_body # <<>>
    /\ tx_log' = Append(tx_log, Executed(Head(tx_body), ok))
    /\ tx_body' = Tail(tx_body)
    /\ tx_pc' = IF ok THEN "body" ELSE "handler"
    /\ tx_origin' = IF ok THEN tx_origin ELSE "body"
    /\ UNCHANGED <<tx_exc, notTx>>

\* the body is left by an exception that is not an Exception (KeyboardInterrupt,
\* SystemExit): "except Exception" does not handle it
TxBodyInterrupted ==
    /\ tx_pc = "body"
    /\ tx_pc' = "raised"
    /\ tx_origin' = "interrupt"
    /\ tx_exc' = "interrupt"
    /\ UNCHANGED <<tx_body, tx_log, notTx>>

\* the body ends: cursor.execute("COMMIT TRANSACTION"), still inside the try
TxCommit(ok) ==
    /\ tx_pc = "body"
    /\ tx_body = <<>>
    /\ tx_log' = Append(tx_log, Executed("COMMIT", ok))
    /\ tx_pc' = IF ok THEN "returned" ELSE "handler"
    /\ tx_origin' = IF ok THEN tx_origin ELSE "commit"
    /\ UNCHANGED <<tx_body, tx_exc, notTx>>

\* a handler that rolls back and does not re-raise
TxRollbackSwallows(ok) ==
    /\ tx_pc = "handler"
    /\ tx_log' = Append(tx_log, Executed("ROLLBACK", ok))
    /\ tx_pc' = IF ok THEN "returned" ELSE "raised"
    /\ tx_exc' = IF ok THEN tx_exc ELSE "rollback"
    /\ UNCHANGED <<tx_body, tx_origin, notTx>>

\* except Exception: cursor.execute("ROLLBACK TRANSACTION"); raise
\* (an exception of the rollback itself replaces the one being handled)
TxRollback(ok) ==
    /\ tx_pc = "handler"
    /\ tx_log' = Append(tx_log, Executed("ROLLBACK", ok))
    /\ tx_pc' = "raised"
    /\ tx_exc' = IF ok THEN tx_origin ELSE "rollback"
    /\ UNCHANGED <<tx_body, tx_origin, notTx>>

NextTx ==
    \/ TxOpenCursor
    \/ TxOpenCursorRaises
    \/ \E ok \in BOOLEAN : TxBegin(ok)
    \/ \E ok \in BOOLEAN : TxBodyExecutes(ok)
    \/ TxBodyInterrupted
    \/ \E ok \in BOOLEAN : TxCommit(ok)
    \/ \E ok \in BOOLEAN : TxRollback(ok)

SpecTx == InitTx /\ [][NextTx]_vars

\* ============================================ copy_table_data_cross_db
MaxRows == 2

ColumnLists == {<<>>, <<"id">>, <<"id", "name">>}
WhereClauses == {"", "active"}

\* select_sql: the column list or "*", and the WHERE clause when one is given
SelectSql(columns, where_clause) ==
    <<IF columns # <<>> THEN columns ELSE <<"*">>, where_clause>>

InitCopy ==
    /\ NotCopyIdle
    /\ cp_pc = "connect_source"
    /\ cp_columns \in ColumnLists
    /\ cp_where \in WhereClauses
    /\ cp_table \in 0..MaxRows
    /\ cp_source = "none"
    /\ cp_target = "none"
    /\ cp_select = <<>>
    /\ cp_rows = 0
    /\ cp_pending = 0
    /\ cp_copied = 0
    /\ cp_exc = "none"

\* source_conn = connect_to_postgres(source_config), in the outer try only
CopyConnectSource(ok) ==
    /\ cp_pc = "connect_source"
    /\ cp_source' = IF ok THEN "open" ELSE cp_source
    /\ cp_exc' = IF ok THEN cp_exc ELSE "connect_source"
    /\ cp_pc' = IF ok THEN "connect_target" ELSE "raised"
    /\ UNCHANGED <<cp_columns, cp_where, cp_table, cp_target, cp_select,
                   cp_rows, cp_pending, cp_copied, notCopy>>

\* target_conn = connect_to_postgres(target_config), still before the inner
\* try: when it raises, the finally that closes the connections is not
\* entered and the outer handler logs and re-raises
CopyConnectTarget(ok) ==
    /\ cp_pc = "connect_target"
    /\ cp_target' = IF ok THEN "open" ELSE cp_target
    /\ cp_exc' = IF ok THEN cp_exc ELSE "connect_target"
    /\ cp_pc' = IF ok THEN "select" ELSE "raised"
    /\ UNCHANGED <<cp_columns, cp_where, cp_table, cp_source, cp_select,
                   cp_rows, cp_pending, cp_copied, notCopy>>

\* build the SELECT, execute it and fetch all rows; "if not rows: return"
CopySelect(ok) ==
    /\ cp_pc = "select"
    /\ cp_select' = SelectSql(cp_columns, cp_where)
    /\ cp_rows' = IF ok THEN cp_table ELSE cp_rows
    /\ cp_exc' = IF ok THEN cp_exc ELSE "select"
    /\ cp_pc' = IF ok /\ cp_table > 0 THEN "insert" ELSE "close_source"
    /\ UNCHANGED <<cp_columns, cp_where, cp_table, cp_source, cp_target,
                   cp_pending, cp_copied, notCopy>>

\* target_cursor.executemany(insert_sql, rows)
CopyInsert(ok) ==
    /\ cp_pc = "insert"
    /\ cp_pending' = IF ok THEN cp_rows ELSE cp_pending
    /\ cp_exc' = IF ok THEN cp_exc ELSE "insert"
    /\ cp_pc' = IF ok THEN "commit" ELSE "close_source"
    /\ UNCHANGED <<cp_columns, cp_where, cp_table, cp_source, cp_target,
                   cp_select, cp_rows, cp_copied, notCopy>>

\* target_conn.commit()
CopyCommit(ok) ==
    /\ cp_pc = "commit"
    /\ cp_copied' = IF ok THEN cp_pending ELSE cp_copied
    /\ cp_pending' = IF ok THEN 0 ELSE cp_pending
    /\ cp_exc' = IF ok THEN cp_exc ELSE "commit"
    /\ cp_pc' = "close_source"
    /\ UNCHANGED <<cp_columns, cp_where, cp_table, cp_source, cp_target,
                   cp_select, cp_rows, notCopy>>

\* finally: source_conn.close(); when it raises, the next statement of the
\* finally block is not executed
CopyCloseSource(ok) ==
    /\ cp_pc = "close_source"
    /\ cp_source' = IF ok THEN "closed" ELSE cp_source
    /\ cp_exc' = IF ok THEN cp_exc ELSE "close_source"
    /\ cp_pc' = IF ok THEN "close_target" ELSE "raised"
    /\ UNCHANGED <<cp_columns, cp_where, cp_table, cp_target, cp_select,
                   cp_rows, cp_pending, cp_copied, notCopy>>

\* finally: target_conn.close(); then the return, or the exception goes on
\* to the outer handler, which logs and re-raises
CopyCloseTarget(ok) ==
    /\ cp_pc = "close_target"
    /\ cp_target' = IF ok THEN "closed" ELSE cp_target
    /\ cp_pending' = 0
    /\ cp_exc' = IF ok THEN cp_exc ELSE "close_target"
    /\ cp_pc' = IF ok /\ cp_exc = "none" THEN "returned" ELSE "raised"
    /\ UNCHANGED <<cp_columns, cp_where, cp_table, cp_source, cp_select,
                   cp_rows, cp_copied, notCopy>>

NextCopy ==
    \/ \E ok \in BOOLEAN : CopyConnectSource(ok)
    \/ \E ok \in BOOLEAN : CopyConnectTarget(ok)
    \/ \E ok \in BOOLEAN : CopySelect(ok)
    \/ \E ok \in BOOLEAN : CopyInsert(ok)
    \/ \E ok \in BOOLEAN : CopyCommit(ok)
    \/ \E ok \in BOOLEAN : CopyCloseSource(ok)
    \/ \E ok \in BOOLEAN : CopyCloseTarget(ok)

SpecCopy == InitCopy /\ [][NextCopy]_vars

\* ===================================== get_sql_from_columns_names, create_table
\* names of schemas and of tables (a schema and a table may share a name)
SqlNames == {"org", "parcels"}

\* the column names of a table in the catalog; <<>> when there is no such table
CatalogColumns == {<<>>, <<"id">>, <<"id", "name">>}

\* field_types dictionaries, as their items in insertion order
FieldTypeDicts ==
    { <<>>,
      << <<"id", "INT">> >>,
      << <<"ID", "INT">>, <<"name", "TEXT">> >>,
      << <<"name", "TEXT">>, <<"id", "INT">> >> }

\* str.lower on the names in use
Lower(name) == IF name = "ID" THEN "id" ELSE name

LowerAll(names) == [n \in DOMAIN names |-> Lower(names[n])]

\* field_types.keys()
FieldNames(fields) == [n \in DOMAIN fields |-> fields[n][1]]

\* SELECT column_name FROM information_schema.columns
\* WHERE table_schema = %s AND table_name = %s ORDER BY ordinal_position
SchemaQuery(catalog, table_schema, table_name) ==
    catalog[<<table_schema, table_name>>]

\* CREATE TABLE IF NOT EXISTS scheme.table (field type, ...)
CreateTableSql(scheme, table, fields) == <<"CREATE", scheme, table, fields>>

\* the effect of CREATE TABLE IF NOT EXISTS on the catalog
ExecuteCreate(catalog, sql) ==
    IF catalog[<<sql[2], sql[3]>>] = <<>>
    THEN [catalog EXCEPT ![<<sql[2], sql[3]>>] = FieldNames(sql[4])]
    ELSE catalog

InitSchema ==
    /\ NotSchemaIdle
    /\ sc_pc = "get_sql"
    /\ sc_catalog \in [SqlNames \X SqlNames -> CatalogColumns]
    /\ sc_scheme \in SqlNames
    /\ sc_table \in SqlNames
    /\ sc_fields \in FieldTypeDicts
    /\ sc_query = "none"
    /\ sc_existing = <<>>
    /\ sc_sql = <<>>
    /\ sc_executed = <<>>
    /\ sc_exc = "none"

\* if not field_types: raise ValueError, before the try
GetSqlNoColumns ==
    /\ sc_pc = "get_sql"
    /\ sc_fields = <<>>
    /\ sc_pc' = "raised"
    /\ sc_exc' = "no columns"
    /\ UNCHANGED <<sc_catalog, sc_scheme, sc_table, sc_fields, sc_query, sc_existing,
                   sc_sql, sc_executed, notSchema>>

\* the messages of the exceptions execute_query re-raises from the schema
\* lookup: connectivity, a failed query, and a database error whose text
\* happens to hold the words the handler looks for
LookupErrors == {"connection refused", "permission denied", "catalog schema mismatch"}

\* "schema mismatch" in str(e), on the messages in use
MentionsSchemaMismatch(msg) == msg \in {"schema mismatch", "catalog schema mismatch"}

\* a handler that re-raises whatever the schema lookup raised
GetSqlQueryRaisesFatal(msg) ==
    /\ sc_pc = "get_sql"
    /\ sc_fields # <<>>
    /\ sc_query' = "raised"
    /\ sc_pc' = "raised"
    /\ sc_exc' = msg
    /\ UNCHANGED <<sc_catalog, sc_scheme, sc_table, sc_fields, sc_existing,
                   sc_sql, sc_executed, notSchema>>

\* the schema query raises (execute_query logs and re-raises): the handler
\* re-raises only when the message holds "schema mismatch"; otherwise the
\* exception is dropped and the function goes on to build the CREATE TABLE
\* statement
GetSqlQueryRaises(msg) ==
    /\ sc_pc = "get_sql"
    /\ sc_fields # <<>>
    /\ sc_query' = "raised"
    /\ IF MentionsSchemaMismatch(msg)
       THEN /\ sc_pc' = "raised"
            /\ sc_exc' = msg
            /\ sc_sql' = sc_sql
       ELSE /\ sc_pc' = "create_table"
            /\ sc_exc' = sc_exc
            /\ sc_sql' = CreateTableSql(sc_scheme, sc_table, sc_fields)
    /\ UNCHANGED <<sc_catalog, sc_scheme, sc_table, sc_fields, sc_existing,
                   sc_executed, notSchema>>

\* the schema query is executed with the parameters (table_name, scheme_name)
\* for the placeholders (table_schema, table_name); then the comparison of
\* the lowercased names, the mismatch error, "" or the CREATE TABLE statement
GetSql ==
    /\ sc_pc = "get_sql"
    /\ sc_fields # <<>>
    /\ LET existing_columns == SchemaQuery(sc_catalog, sc_table, sc_scheme)
           mismatch == LowerAll(existing_columns) # LowerAll(FieldNames(sc_fields))
       IN  /\ sc_query' = "answered"
           /\ sc_existing' = existing_columns
           /\ IF existing_columns # <<>> /\ mismatch
              THEN sc_pc' = "raised" /\ sc_exc' = "schema mismatch"
                   /\ sc_sql' = sc_sql
              ELSE sc_pc' = "create_table" /\ sc_exc' = sc_exc
                   /\ sc_sql' = IF existing_columns # <<>> THEN <<>>
                                ELSE CreateTableSql(sc_scheme, sc_table, sc_fields)
    /\ UNCHANGED <<sc_catalog, sc_scheme, sc_table, sc_fields, sc_executed,
                   notSchema>>

\* create_table with an empty statement: returns without executing anything
CreateTableSkips ==
    /\ sc_pc = "create_table"
    /\ sc_sql = <<>>
    /\ sc_pc' = "returned"
    /\ UNCHANGED <<sc_catalog, sc_scheme, sc_table, sc_fields, sc_query, sc_existing,
                   sc_sql, sc_executed, sc_exc, notSchema>>

\* create_table executes the statement and commits; an exception is logged
\* and re-raised
CreateTable(ok) ==
    /\ sc_pc = "create_table"
    /\ sc_sql # <<>>
    /\ sc_executed' = Append(sc_executed, sc_sql)
    /\ sc_catalog' = IF ok THEN ExecuteCreate(sc_catalog, sc_sql) ELSE sc_catalog
    /\ sc_exc' = IF ok THEN sc_exc ELSE "create_table"
    /\ sc_pc' = IF ok THEN "returned" ELSE "raised"
    /\ UNCHANGED <<sc_scheme, sc_table, sc_fields, sc_query, sc_existing, sc_sql,
                   notSchema>>

NextSchema ==
    \/ GetSqlNoColumns
    \/ \E msg \in LookupErrors : GetSqlQueryRaises(msg)
    \/ GetSql
    \/ CreateTableSkips
    \/ \E ok \in BOOLEAN : CreateTable(ok)

SpecSchema == InitSchema /\ [][NextSchema]_vars

\* ==================================================================== main
MaxRes == 2

\* ---- paths: a path is the sequence of its components, a component the
\* sequence of the pieces its name is written with
OutputDir == <<"outputs">>
FeatureClassName == <<"blocks_and_parcels">>

\* gdb_name as the entry point passes it, and a name that already carries
\* the extension
GdbNames == {<<"blocks_and_parcels">>, <<"blocks_and_parcels", ".gdb">>}

\* gdb_path = os.path.join(output_dir, f"{gdb_name}.gdb")
GdbPath(name) == <<OutputDir, name \o <<".gdb">> >>

\* feature_class_path = os.path.join(gdb_path, feature_class_name)
FeatureClassPath(name) == Append(GdbPath(name), FeatureClassName)

\* Path(output_dir, gdb_name, feature_class_name)
UpsertSourcePath(name) == <<OutputDir, name, FeatureClassName>>

IsPrefix(a, b) == Len(a) <= Len(b) /\ SubSeq(b, 1, Len(a)) = a

Absent == [exists |-> FALSE, rows |-> <<>>]
Table(rows) == [exists |-> TRUE, rows |-> rows]

\* a record of a feature class created by create_gdb_and_feature_class: the
\* columns of field_names, and xoid
Feature(row, xoid) == [row |-> row, xoid |-> xoid]

\* the rows a SearchCursor over field_names yields
CursorRows(table) == [n \in DOMAIN table.rows |-> table.rows[n].row]

\* ---- the catalog rows
J1 == ("PARCEL_ID" :> 1) @@ ("GUSH_NUM" :> 1) @@ ("GUSH_SUFFI" :> 1) @@ ("PARCEL" :> "A")
J2 == ("PARCEL_ID" :> 2) @@ ("GUSH_NUM" :> 1) @@ ("GUSH_SUFFI" :> 1) @@ ("PARCEL" :> "B")

\* the json_data column: a dict, the text of an object, a text that
\* json.loads rejects, or an empty value
JsonDict(obj) == [kind |-> "dict", wellformed |-> TRUE, obj |-> obj]
JsonText(obj) == [kind |-> "str", wellformed |-> TRUE, obj |-> obj]
JsonMalformed == [kind |-> "str", wellformed |-> FALSE, obj |-> <<>>]
JsonEmpty == [kind |-> "empty", wellformed |-> TRUE, obj |-> <<>>]

ParsableWkt == {"POLYGON"}

ResultRow(wkt, json) == [wkt |-> wkt, json |-> json]

ResultRows ==
    { ResultRow("POLYGON", JsonDict(J1)),
      ResultRow("POLYGON", JsonText(J2)),
      ResultRow("", JsonDict(J1)),
      ResultRow("BAD", JsonText(J2)),
      ResultRow("POLYGON", JsonMalformed),
      ResultRow("POLYGON", JsonEmpty) }

\* lines 331-338: json.loads raises on a text that is not JSON
JsonLoadsRaises(row) == row.json.kind = "str" /\ ~row.json.wellformed

JsonData(row) == row.json.obj

\* wkt_to_arcpy_geometry: None for an empty text and for a text FromWKT rejects
WktToArcpyGeometry(wkt) ==
    IF wkt = "" THEN None
    ELSE IF wkt \in ParsableWkt THEN "g1" ELSE None

\* insert_row, over the columns of field_names, and its xoid
InsertRowOf(row, xoid) ==
    LET mapped_data == MapJsonToGdbColumns(JsonData(row))
    IN  Feature(<<WktToArcpyGeometry(row.wkt), mapped_data["parcel_id"],
                  mapped_data["gush_num"], mapped_data["gush_suffix"],
                  mapped_data["parcel"]>>, xoid)

\* ---- what is on disk and in the destination before main runs
StaleFeatures == {<<>>, <<Feature(RowOf(<<1, 1, 1>>, <<"g2", "B">>), 7)>>}

StaleTables == {Absent} \cup {Table(rows) : rows \in StaleFeatures}

MainDst == {<<RowOf(<<1, 1, 1>>, <<"g1", "A">>)>>, <<RowOf(<<2, 1, 1>>, <<"g1", "A">>)>>}

mainInputs == <<FromCC, gdb_name, results>>
mainDb == <<db_open, db_handle, db_made>>
mainCounts == <<inserted_count, error_count, xoid_counter, insert_failed>>
mainPaths == <<feature_class_path, read_path>>

\* the groups no action of main or of the reconciliation pass changes
notMainUpsert == <<mapVars, txVars, copyVars, schemaVars>>

InitMain ==
    /\ MapIdle /\ TxIdle /\ CopyIdle /\ SchemaIdle
    /\ field_names = FieldNamesMain
    /\ src = <<>>
    /\ dst \in MainDst
    /\ pc = "idle"
    /\ dic_dst = <<>>
    /\ dic_src = <<>>
    /\ i = 1
    /\ j = 1
    /\ to_delete_keys = {}
    /\ success_count = 0
    /\ fail_count = 0
    /\ delete_count = 0
    /\ run = 1
    /\ dst0 = dst
    /\ inserts = 0
    /\ upsert_errors = {}
    /\ env_errors = {}
    /\ delete_errors = {}
    /\ delete_error_log = 0
    /\ conn_failed = FALSE
    /\ clean1 = FALSE
    /\ m_pc = "start"
    /\ FromCC \in BOOLEAN
    /\ gdb_name \in GdbNames
    /\ results \in IF FromCC THEN SeqsUpTo(ResultRows, MaxRes) ELSE {<<>>}
    /\ res_i = 1
    /\ fs \in [{FeatureClassPath(gdb_name), UpsertSourcePath(gdb_name)} -> StaleTables]
    /\ feature_class_path = <<>>
    /\ read_path = <<>>
    /\ db_open = {}
    /\ db_handle = 0
    /\ db_made = 0
    /\ inserted_count = 0
    /\ error_count = 0
    /\ xoid_counter = 0
    /\ insert_failed = {}
    /\ m_after = "none"

\* if FromCC is false the extraction stage is skipped
MainSkipsExtraction ==
    /\ m_pc = "start"
    /\ ~FromCC
    /\ m_pc' = "upsert_call"
    /\ UNCHANGED <<mainInputs, res_i, fs, mainPaths, mainDb, mainCounts, m_after, notMain>>

\* db_ops = DatabaseOperations(connection_type="postgres"), before the try:
\* the constructor establishes the connection, or raises
MainConnect(ok) ==
    /\ m_pc = "start"
    /\ FromCC
    /\ IF ok
       THEN /\ db_made' = db_made + 1
            /\ db_handle' = db_made + 1
            /\ db_open' = db_open \cup {db_made + 1}
            /\ m_pc' = "query"
       ELSE /\ UNCHANGED mainDb
            /\ m_pc' = "raised"
    /\ UNCHANGED <<mainInputs, res_i, fs, mainPaths, mainCounts, m_after, notMain>>

QueryOutcomes == {"answers", "raises", "reconnects", "reconnect_raises"}

\* a query step without the early return on an empty result
MainQueryWithoutReturn(outcome) ==
    /\ m_pc = "query"
    /\ CASE outcome = "answers" -> UNCHANGED mainDb
         [] outcome = "raises" -> UNCHANGED mainDb
         [] outcome = "reconnects" ->
                /\ db_made' = db_made + 1
                /\ db_handle' = db_made + 1
                /\ db_open' = (db_open \ {db_handle}) \cup {db_made + 1}
         [] outcome = "reconnect_raises" ->
                /\ db_open' = db_open \ {db_handle}
                /\ UNCHANGED <<db_handle, db_made>>
    /\ IF outcome \in {"answers", "reconnects"}
       THEN m_pc' = "create" /\ m_after' = m_after
       ELSE m_pc' = "finally" /\ m_after' = "raised"
    /\ UNCHANGED <<mainInputs, res_i, fs, mainPaths, mainCounts, notMain>>

\* results = db_ops.execute_query(...); "if not results: return".
\* _get_connection reconnects when it finds the connection closed, and an
\* exception of execute_query is re-raised into main's try
MainQuery(outcome) ==
    /\ m_pc = "query"
    /\ CASE outcome = "answers" -> UNCHANGED mainDb
         [] outcome = "raises" -> UNCHANGED mainDb
         [] outcome = "reconnects" ->
                /\ db_made' = db_made + 1
                /\ db_handle' = db_made + 1
                /\ db_open' = (db_open \ {db_handle}) \cup {db_made + 1}
         [] outcome = "reconnect_raises" ->
                /\ db_open' = db_open \ {db_handle}
                /\ UNCHANGED <<db_handle, db_made>>
    /\ IF outcome \in {"answers", "reconnects"}
       THEN IF results = <<>>
            THEN m_pc' = "finally" /\ m_after' = "returned"
            ELSE m_pc' = "create" /\ m_after' = m_after
       ELSE m_pc' = "finally" /\ m_after' = "raised"
    /\ UNCHANGED <<mainInputs, res_i, fs, mainPaths, mainCounts, notMain>>

\* Delete_management(gdb_path): every feature class under gdb_path is gone
DeleteGdb(files, gdb_path) ==
    [p \in DOMAIN files |-> IF IsPrefix(gdb_path, p) THEN Absent ELSE files[p]]

\* create_gdb_and_feature_class: an existing GDB is deleted, the GDB and an
\* empty feature class are created and the path of the feature class is
\* returned; then the counters of the insert loop are initialized.
\* When the creation raises, the existing GDB is already deleted.
MainCreate(ok) ==
    /\ m_pc = "create"
    /\ LET gdb_path == GdbPath(gdb_name)
           created == FeatureClassPath(gdb_name)
       IN  IF ok
           THEN /\ fs' = [DeleteGdb(fs, gdb_path) EXCEPT ![created] = Table(<<>>)]
                /\ feature_class_path' = created
                /\ m_pc' = "rows"
                /\ m_after' = m_after
           ELSE /\ fs' = DeleteGdb(fs, gdb_path)
                /\ feature_class_path' = feature_class_path
                /\ m_pc' = "finally"
                /\ m_after' = "raised"
    /\ inserted_count' = 0
    /\ error_count' = 0
    /\ xoid_counter' = 0
    /\ UNCHANGED <<mainInputs, res_i, read_path, mainDb, insert_failed, notMain>>

InRows == m_pc = "rows" /\ res_i <= Len(results)

\* json.loads raises: the handler counts the row as an error and continues
MainRowJsonRaises ==
    /\ InRows
    /\ JsonLoadsRaises(results[res_i])
    /\ error_count' = error_count + 1
    /\ res_i' = res_i + 1
    /\ UNCHANGED <<m_pc, mainInputs, fs, mainPaths, mainDb, inserted_count,
                   xoid_counter, insert_failed, m_after, notMain>>

\* geometry is None: error_count += 1; continue
MainRowSkipsGeometry ==
    /\ InRows
    /\ ~JsonLoadsRaises(results[res_i])
    /\ WktToArcpyGeometry(results[res_i].wkt) = None
    /\ error_count' = error_count + 1
    /\ res_i' = res_i + 1
    /\ UNCHANGED <<m_pc, mainInputs, fs, mainPaths, mainDb, inserted_count,
                   xoid_counter, insert_failed, m_after, notMain>>

\* an insert that writes the counter without advancing it
MainRowInsertsSameXoid ==
    /\ InRows
    /\ ~JsonLoadsRaises(results[res_i])
    /\ WktToArcpyGeometry(results[res_i].wkt) # None
    /\ fs' = [fs EXCEPT ![feature_class_path].rows =
                  Append(@, InsertRowOf(results[res_i], xoid_counter))]
    /\ inserted_count' = inserted_count + 1
    /\ res_i' = res_i + 1
    /\ UNCHANGED <<m_pc, mainInputs, mainPaths, mainDb, error_count, xoid_counter,
                   insert_failed, m_after, notMain>>

\* insert_row is built, which advances generate_xoid.counter, and
\* cursor.insertRow(insert_row) writes it; inserted_count += 1
MainRowInserts ==
    /\ InRows
    /\ ~JsonLoadsRaises(results[res_i])
    /\ WktToArcpyGeometry(results[res_i].wkt) # None
    /\ xoid_counter' = xoid_counter + 1
    /\ fs' = [fs EXCEPT ![feature_class_path].rows =
                  Append(@, InsertRowOf(results[res_i], xoid_counter + 1))]
    /\ inserted_count' = inserted_count + 1
    /\ res_i' = res_i + 1
    /\ UNCHANGED <<m_pc, mainInputs, mainPaths, mainDb, error_count,
                   insert_failed, m_after, notMain>>

\* insert_row is built and cursor.insertRow raises: the xoid is used up, the
\* handler counts the row as an error and continues
MainRowInsertRaises ==
    /\ InRows
    /\ ~JsonLoadsRaises(results[res_i])
    /\ WktToArcpyGeometry(results[res_i].wkt) # None
    /\ xoid_counter' = xoid_counter + 1
    /\ error_count' = error_count + 1
    /\ insert_failed' = insert_failed \cup {res_i}
    /\ res_i' = res_i + 1
    /\ UNCHANGED <<m_pc, mainInputs, fs, mainPaths, mainDb, inserted_count,
                   m_after, notMain>>

\* a loop end that leaves the try without its finally clause
MainRowsEndUnclosed ==
    /\ m_pc = "rows"
    /\ res_i > Len(results)
    /\ m_pc' = "upsert_call"
    /\ m_after' = "continue"
    /\ UNCHANGED <<mainInputs, res_i, fs, mainPaths, mainDb, mainCounts, notMain>>

\* the loop is exhausted and the InsertCursor is released: the try ends
MainRowsEnd ==
    /\ m_pc = "rows"
    /\ res_i > Len(results)
    /\ m_pc' = "finally"
    /\ m_after' = "continue"
    /\ UNCHANGED <<mainInputs, res_i, fs, mainPaths, mainDb, mainCounts, notMain>>

\* a release that is made only when the try ended normally
MainCloseConnectionAtEndOnly ==
    /\ m_pc = "finally"
    /\ db_open' = IF m_after = "continue" THEN db_open \ {db_handle} ELSE db_open
    /\ db_handle' = IF m_after = "continue" THEN 0 ELSE db_handle
    /\ m_pc' = IF m_after = "continue" THEN "upsert_call" ELSE m_after
    /\ UNCHANGED <<mainInputs, res_i, fs, mainPaths, db_made, mainCounts, m_after, notMain>>

\* finally: db_ops.close_connection(): the connection is closed and the
\* handle is set to None; then main goes on, returns or raises
MainCloseConnection ==
    /\ m_pc = "finally"
    /\ db_open' = db_open \ {db_handle}
    /\ db_handle' = 0
    /\ m_pc' = IF m_after = "continue" THEN "upsert_call" ELSE m_after
    /\ UNCHANGED <<mainInputs, res_i, fs, mainPaths, db_made, mainCounts, m_after, notMain>>

\* upsert_blocks_and_parcels(SDE_PATH, Path(output_dir, gdb_name,
\* feature_class_name), field_names): the pass starts on the rows that are
\* at that path
MainCallsUpsert ==
    /\ m_pc = "upsert_call"
    /\ m_pc' = "upsert"
    /\ read_path' = UpsertSourcePath(gdb_name)
    /\ src' = CursorRows(fs[UpsertSourcePath(gdb_name)])
    /\ pc' = "scan_dst"
    /\ UNCHANGED <<mainInputs, res_i, fs, feature_class_path, mainDb, mainCounts, m_after,
                   field_names, dst, dic_dst, dic_src, i, j, to_delete_keys,
                   counters, history, notMainUpsert>>

\* the SearchCursor on the source path can be opened only on a feature
\* class that exists
SourceExists == read_path \in DOMAIN fs /\ fs[read_path].exists

UpsertScanSource == SourceExists /\ ScanSource

\* the pass returns, or its exception leaves main
MainReturns ==
    /\ m_pc = "upsert"
    /\ pc \in {"done", "raised"}
    /\ m_pc' = IF pc = "done" THEN "returned" ELSE "raised"
    /\ UNCHANGED <<mainInputs, res_i, fs, mainPaths, mainDb, mainCounts, m_after, notMain>>

\* main, with the steps of the pass it calls.  The entry point's field list
\* has none of the columns the update's where clause names, so the update
\* step of the pass is UpdateRaisesInvalidWhere.
NextMain ==
    \/ MainSkipsExtraction
    \/ \E ok \in BOOLEAN : MainConnect(ok)
    \/ \E outcome \in QueryOutcomes : MainQuery(outcome)
    \/ \E ok \in BOOLEAN : MainCreate(ok)
    \/ MainRowJsonRaises
    \/ MainRowSkipsGeometry
    \/ MainRowInserts
    \/ MainRowInsertRaises
    \/ MainRowsEnd
    \/ MainCloseConnection
    \/ MainCallsUpsert
    \/ ScanDestination
    \/ UpsertScanSource
    \/ ScanRaises
    \/ InsertRow
    \/ UpdateRaisesInvalidWhere
    \/ \E kind \in ErrorKinds : UpsertRaises(kind)
    \/ UpsertLoopEnds
    \/ DeleteSkipsRow
    \/ DeleteRow
    \/ \E kind \in ErrorKinds : DeleteRowRaises(kind)
    \/ DeleteCursorRaises
    \/ DeleteLoopEnds
    \/ MainReturns

SpecMain == InitMain /\ [][NextMain]_vars

\* ============================================================ properties
\* The properties read the tables directly, by their own definitions of the
\* composite key, and not through the dictionaries of the pass.
CompositeKey(row) == <<row[2], row[3], row[4]>>

Keys(table) == {CompositeKey(table[n]) : n \in DOMAIN table}

RowsWithKey(table, ks) == {n \in DOMAIN table : CompositeKey(table[n]) \in ks}

Max(S) == CHOOSE x \in S : \A y \in S : x >= y

\* the source record of a key: the last one the scan yields with that key
SourceRecord(k) == src[Max(RowsWithKey(src, {k}))]

Done == pc = "done"

OnlyInDestination == Keys(dst0) \ Keys(src)
OnlyInSource == Keys(src) \ Keys(dst0)
InBoth == Keys(src) \cap Keys(dst0)

\* ---- C1
\* C1 as stated: once the pass has completed, no destination row carries a
\* key that was in the destination and not in the source when it started.
C1_DestinationOnlyKeysRemoved ==
    Done => \A k \in OnlyInDestination : k \notin Keys(dst)

\* C1 as amended: once the pass has completed, a key that was only in the
\* destination is carried by a destination row exactly when deleteRow raised
\* for a row with that key; every other such key is gone.
C1_DestinationOnlyKeysRemovedUnlessDeleteRaised ==
    Done => \A k \in OnlyInDestination : (k \in Keys(dst)) <=> (k \in delete_errors)

C1_Witness ==
    /\ Done
    /\ delete_count > 0
    /\ \E k \in OnlyInDestination : k \notin Keys(dst)
    /\ Keys(dst) # {}

\* ---- C2
\* C2 as stated: once the pass has completed, every key that was only in
\* the source is carried by a destination row equal to a source record of
\* that key.
C2_SourceOnlyKeysInserted ==
    Done => \A k \in OnlyInSource :
               \E n \in DOMAIN dst : \E m \in RowsWithKey(src, {k}) : dst[n] = src[m]

\* C2 as amended: once the pass has completed, a key that was only in the
\* source and whose insert did not raise is carried by exactly one
\* destination row, which equals the source record of that key; a key whose
\* insert raised is still absent.
C2_SourceOnlyKeysInsertedUnlessInsertRaised ==
    Done => \A k \in OnlyInSource :
               IF k \in upsert_errors
               THEN k \notin Keys(dst)
               ELSE /\ Cardinality(RowsWithKey(dst, {k})) = 1
                    /\ \A n \in RowsWithKey(dst, {k}) : dst[n] = SourceRecord(k)

C2_Witness ==
    /\ Done
    /\ inserts > 0
    /\ dst0 # <<>>
    /\ \E k \in OnlyInSource : \E n \in DOMAIN dst : dst[n] = SourceRecord(k)

\* ---- C3
\* C3: once the pass has completed, every key that was in both tables, and
\* whose update the store did not reject, is carried by a destination row
\* that has the attribute tuple of the source record.
C3_KeysInBothTakeSourceValues ==
    Done => \A k \in InBoth \ env_errors :
               \E n \in RowsWithKey(dst, {k}) : dst[n] = SourceRecord(k)

C5_SuccessPlusFailIsAttempted ==
    /\ pc = "upsert" => success_count + fail_count = i - 1
    /\ pc \in {"delete", "done"} =>
           success_count + fail_count = Cardinality(Keys(src))

C5_Witness ==
    /\ Done
    /\ success_count = 2
    /\ fail_count = 0
    /\ inserts = 1
    /\ run = 1

\* ---- C6
\* C6 as stated: at completion delete_count is the number of keys that the
\* initial scans found in the destination and not in the source.
C6_DeleteCountIsKeyDifference ==
    Done => delete_count = Cardinality(OnlyInDestination)

\* C6 as amended: at completion delete_count is the number of destination
\* rows that carried a key of (destination keys - source keys) and whose
\* deleteRow did not raise.
C6_DeleteCountIsRowsDeleted ==
    Done => delete_count =
              Cardinality(RowsWithKey(dst0, OnlyInDestination)) - delete_error_log

C6_Witness ==
    /\ Done
    /\ delete_count = 1
    /\ Cardinality(OnlyInDestination) = 1
    /\ Keys(src) # {}

\* ---- C7
\* C7 as stated: with an empty source and a non-empty destination the pass
\* ends with an empty destination and the counters 0, 0 and the original
\* number of destination rows.
C7_EmptySourceDeletesAll ==
    (Done /\ src = <<>> /\ dst0 # <<>>) =>
        /\ dst = <<>>
        /\ success_count = 0
        /\ fail_count = 0
        /\ delete_count = Len(dst0)

\* C7 as amended: with an empty source and a non-empty destination the
\* pass ends with success_count = 0 and fail_count = 0, the rows left are
\* exactly those whose deleteRow raised, and delete_count is the original
\* number of destination rows less those.
C7_EmptySourceDeletesAllButFailed ==
    (Done /\ src = <<>> /\ dst0 # <<>>) =>
        /\ Len(dst) = delete_error_log
        /\ Keys(dst) = delete_errors
        /\ success_count = 0
        /\ fail_count = 0
        /\ delete_count = Len(dst0) - delete_error_log

C7_Witness ==
    /\ Done
    /\ src = <<>>
    /\ Len(dst0) = 2
    /\ dst = <<>>
    /\ delete_count = 2

\* ---- C8
\* C8: a step that counts an insert/update failure adds exactly one to
\* fail_count, leaves success_count and every destination row as they were,
\* and goes on to the next source record (or to the end of the loop, from
\* where the deletion pass starts): it does not end the pass.
C8_FailureIsolation ==
    [][(run' = run /\ fail_count' # fail_count) =>
          /\ pc = "upsert"
          /\ fail_count' = fail_count + 1
          /\ success_count' = success_count
          /\ dst' = dst
          /\ dic_src' = dic_src
          /\ i' = i + 1
          /\ pc' = "upsert"]_vars

C8_Witness ==
    /\ Done
    /\ Len(dic_src) = 2
    /\ upsert_errors = {dic_src[1][1]}
    /\ fail_count = 1
    /\ success_count = 1
    /\ delete_count = 1

C10_ConnectivityFailureAborts ==
    conn_failed => pc = "raised"

\* ---- C19
\* C19: when more than one destination row carries a composite key that is
\* in the source, the update of that key (unless the store rejects it)
\* overwrites exactly the first of those rows with the source record, leaves
\* every other row untouched, and counts the key once as a success.
C19_UpdateTouchesFirstDuplicateOnly ==
    [][(/\ pc = "upsert"
        /\ i <= Len(dic_src)
        /\ i' = i + 1
        /\ Cardinality(RowsWithKey(dst, {dic_src[i][1]})) > 1
        /\ dic_src[i][1] \in Keys(dst0)
        /\ env_errors' = env_errors)
       => /\ dst' = [dst EXCEPT ![Min(RowsWithKey(dst, {dic_src[i][1]}))] =
                                    SourceRecord(dic_src[i][1])]
          /\ success_count' = success_count + 1
          /\ fail_count' = fail_count]_vars

\* the same, for a field list whose positions 1..3 are the columns of the
\* where clause
C19_UpdateTouchesFirstDuplicateOnlyKeyed ==
    [][(/\ field_names = FieldNamesKeyed
        /\ pc = "upsert"
        /\ i <= Len(dic_src)
        /\ i' = i + 1
        /\ Cardinality(RowsWithKey(dst, {dic_src[i][1]})) > 1
        /\ dic_src[i][1] \in Keys(dst0)
        /\ env_errors' = env_errors)
       => /\ dst' = [dst EXCEPT ![Min(RowsWithKey(dst, {dic_src[i][1]}))] =
                                    SourceRecord(dic_src[i][1])]
          /\ success_count' = success_count + 1
          /\ fail_count' = fail_count]_vars

\* ---- C12
\* C12: the dictionary map_json_to_gdb_columns returns has exactly the 29
\* target columns; the column of each of the 18 mapping entries holds the
\* payload's value for the entry's JSON key when the payload has that key
\* and null otherwise; every other column is null, whatever other keys the
\* payload has.
MappedColumns == {Mapping[n][2] : n \in DOMAIN Mapping}

C12_MapJsonToGdbColumns ==
    map_pc = "returned" =>
        /\ DOMAIN map_result = Range(GdbColumns)
        /\ Cardinality(DOMAIN map_result) = 29
        /\ Cardinality(MappedColumns) = 18
        /\ \A n \in DOMAIN Mapping :
              map_result[Mapping[n][2]] =
                  IF Mapping[n][1] \in DOMAIN json_data
                  THEN json_data[Mapping[n][1]] ELSE None
        /\ \A col \in Range(GdbColumns) \ MappedColumns : map_result[col] = None

C12_Witness ==
    /\ map_pc = "returned"
    /\ DOMAIN json_data = {"PARCEL_ID", "OBJECTID", "parcel_id"}
    /\ json_data["PARCEL_ID"] = "v1"
    /\ json_data["parcel_id"] = "v2"
    /\ map_result["parcel_id"] = "v1"
    /\ map_result["gush_suffix"] = None

\* ---- C17
Issued(stmt) == {n \in DOMAIN tx_log : tx_log[n].stmt = stmt}

TxEnded == tx_pc \in {"returned", "raised"}

CopyEnded == cp_pc \in {"returned", "raised"}

\* C15: when copy_table_data_cross_db returns or raises, every connection it
\* established has been closed; in particular the source connection, also
\* when establishing the target connection failed.
C15_ConnectionsReleasedOnEveryExit ==
    CopyEnded =>
        /\ cp_source # "none" => cp_source = "closed"
        /\ cp_target # "none" => cp_target = "closed"

\* what the code does guarantee: both connections are closed on every exit
\* path that starts after both were established, unless a close() raised
C15_ReleasedOnceBothEstablished ==
    (CopyEnded /\ cp_target # "none"
        /\ cp_exc \notin {"close_source", "close_target"}) =>
            cp_source = "closed" /\ cp_target = "closed"

\* ---- C16
\* the columns of the table the caller named, before create_table ran
NamedTableColumns == sc_catalog[<<sc_scheme, sc_table>>]

\* get_sql_from_columns_names has finished after a schema query that answered
GetSqlAnswered ==
    /\ sc_query = "answered"
    /\ sc_executed = <<>>
    /\ sc_pc \in {"create_table", "raised"}

\* C16: after get_sql_from_columns_names, if the named table exists with
\* column names that differ from the expected field names, a schema mismatch
\* was raised; if it does not exist, nothing was raised and a CREATE TABLE
\* statement was returned; if it exists with matching columns, the empty
\* statement was returned, for which create_table executes nothing.
C16_ThreeOutcomes ==
    /\ GetSqlAnswered =>
          LET expected == LowerAll(FieldNames(sc_fields))
              found == LowerAll(NamedTableColumns)
          IN  /\ (found # <<>> /\ found # expected) =>
                    sc_pc = "raised" /\ sc_exc = "schema mismatch"
              /\ found = <<>> =>
                    sc_pc = "create_table" /\ sc_sql # <<>>
              /\ (found # <<>> /\ found = expected) =>
                    sc_pc = "create_table" /\ sc_sql = <<>>
    /\ (sc_pc = "returned" /\ sc_sql = <<>>) => sc_executed = <<>>

\* what the code does: the three outcomes are decided by the columns of the
\* table named sc_scheme in the schema named sc_table
C16_ThreeOutcomesOfSwappedLookup ==
    GetSqlAnswered =>
        LET expected == LowerAll(FieldNames(sc_fields))
            found == LowerAll(sc_catalog[<<sc_table, sc_scheme>>])
        IN  /\ (found # <<>> /\ found # expected) =>
                  sc_pc = "raised" /\ sc_exc = "schema mismatch"
            /\ found = <<>> =>
                  sc_pc = "create_table" /\ sc_sql # <<>>
            /\ (found # <<>> /\ found = expected) =>
                  sc_pc = "create_table" /\ sc_sql = <<>>

\* ---- main: helpers
\* the feature class of this run's extraction stage
Written == fs[feature_class_path].rows

\* the catalog rows the insert loop has been through
Processed == 1..(res_i - 1)

\* the row is skipped for its geometry
GeometrySkipped(n) ==
    ~JsonLoadsRaises(results[n]) /\ WktToArcpyGeometry(results[n].wkt) = None

\* the row gets as far as insertRow
Insertable(n) ==
    ~JsonLoadsRaises(results[n]) /\ WktToArcpyGeometry(results[n].wkt) # None

\* the composite key the record of a catalog row has in the feature class
ResultKey(n) == KeyOf(InsertRowOf(results[n], 0).row)

\* the records the loop has written after its first n rows, in order
RECURSIVE WrittenAfter(_)
WrittenAfter(n) ==
    IF n = 0 THEN <<>>
    ELSE IF Insertable(n) /\ n \notin insert_failed
         THEN Append(WrittenAfter(n - 1), InsertRowOf(results[n], 0).row)
         ELSE WrittenAfter(n - 1)

\* the extraction stage has been left
StageLeft == m_pc \in {"upsert_call", "upsert", "returned", "raised"}

\* ---- C20
\* C20: with FromCC true, the path the reconciliation stage reads as its
\* source is the path of the feature class the extraction stage created.
C20_ReconciliationReadsCreatedFeatureClass ==
    (FromCC /\ read_path # <<>> /\ feature_class_path # <<>>) =>
        read_path = feature_class_path

\* ---- C11
\* the extraction part of C11: a row skipped for its geometry is counted in
\* error_count and not written, and the loop goes on to write every other
\* row whose insertRow does not raise
C11_GeometryFailureSkipsRow ==
    (feature_class_path # <<>> /\ m_pc # "finally") =>
        /\ CursorRows(fs[feature_class_path]) = WrittenAfter(res_i - 1)
        /\ error_count = Cardinality({n \in Processed : ~Insertable(n)})
                           + Cardinality(insert_failed)
        /\ inserted_count = Len(Written)
        /\ m_pc # "rows" => res_i = Len(results) + 1

\* C11: a row whose geometry cannot be parsed is skipped and counted, the
\* other rows are still written, and when main has returned, the key of a
\* skipped row that no other catalog row has and that was absent from the
\* destination before the run is absent from the destination.
C11_SkippedKeyAbsentAfterRun ==
    /\ C11_GeometryFailureSkipsRow
    /\ (FromCC /\ m_pc = "returned" /\ results # <<>>) =>
          \A n \in DOMAIN results :
              (/\ GeometrySkipped(n)
               /\ \A m \in DOMAIN results \ {n} :
                     ~JsonLoadsRaises(results[m]) /\ results[m].json.kind # "empty"
                        => ResultKey(m) # ResultKey(n)
               /\ ResultKey(n) \notin Keys(dst0))
                  => ResultKey(n) \notin Keys(dst)

\* ---- C13
\* C13: every record written to the feature class during the extraction
\* pass has an xoid generate_xoid handed out, and the xoids are strictly
\* increasing (hence distinct) in the order the records were written.
C13_XoidsStrictlyIncreasing ==
    feature_class_path # <<>> =>
        \A a \in DOMAIN Written :
            /\ Written[a].xoid \in 1..xoid_counter
            /\ \A b \in DOMAIN Written : a < b => Written[a].xoid < Written[b].xoid

C13_Witness ==
    /\ feature_class_path # <<>>
    /\ Len(Written) = 2
    /\ Written[1].xoid = 1
    /\ Written[2].xoid = 2

\* ---- C14
\* C14: with FromCC true, once the extraction stage has been left (by its
\* normal end, by the early return on an empty result, or by an exception
\* of the query, the creation or the writing), no catalog connection is
\* open and the handle is cleared.
C14_CatalogConnectionReleased ==
    (FromCC /\ StageLeft) => (db_open = {} /\ db_handle = 0)

C14_Witness ==
    /\ FromCC
    /\ m_pc = "raised"
    /\ pc = "idle"
    /\ db_made = 1
    /\ feature_class_path = <<>>
    /\ db_open = {}
    /\ db_handle = 0

\* ---- C18
\* C18: with FromCC false no catalog connection is established and no
\* container is created, main only calls the reconciliation pass; with
\* FromCC true the pass starts only after a non-empty result was processed
\* to its last row and the catalog connection was closed.
C18_FlagSelectsStages ==
    /\ ~FromCC =>
          /\ db_made = 0 /\ db_open = {} /\ db_handle = 0
          /\ feature_class_path = <<>>
          /\ inserted_count = 0 /\ error_count = 0
          /\ m_pc \in {"start", "upsert_call", "upsert", "returned", "raised"}
    /\ (FromCC /\ pc # "idle") =>
          /\ results # <<>>
          /\ feature_class_path # <<>>
          /\ res_i = Len(results) + 1
          /\ m_after = "continue"
          /\ db_open = {} /\ db_handle = 0

C18_Witness ==
    /\ FromCC
    /\ m_pc = "returned"
    /\ pc = "done"
    /\ inserted_count = 1
    /\ error_count = 1
    /\ db_made = 1

\* ---- C24
\* get_sql_from_columns_names has finished after a schema lookup that raised
GetSqlLookupRaised ==
    /\ sc_query = "raised"
    /\ sc_executed = <<>>
    /\ sc_pc \in {"create_table", "raised"}

\* C24: when the schema lookup raised, get_sql_from_columns_names raises
\* only an exception whose message holds "schema mismatch"; every other
\* exception is dropped and the function returns the CREATE TABLE statement
\* it returns for a table that does not exist.
C24_LookupFailureIsSwallowed ==
    GetSqlLookupRaised =>
        IF sc_pc = "raised"
        THEN MentionsSchemaMismatch(sc_exc)
        ELSE /\ sc_exc = "none"
             /\ sc_sql = CreateTableSql(sc_scheme, sc_table, sc_fields)

\* the lookup failed for a table that exists with other columns, and the
\* CREATE TABLE statement was returned
C24_Witness ==
    /\ GetSqlLookupRaised
    /\ sc_pc = "create_table"
    /\ sc_sql = CreateTableSql(sc_scheme, sc_table, sc_fields)
    /\ sc_catalog[<<sc_scheme, sc_table>>] # <<>>
    /\ LowerAll(sc_catalog[<<sc_scheme, sc_table>>]) # LowerAll(FieldNames(sc_fields))

\* ---- C23
\* C23: with FromCC true and an empty query result, no step of main creates,
\* replaces or writes a feature class, the reconciliation pass is never
\* started, the destination is never changed, and after the finally clause
\* main has returned.
C23_EmptyResultReturnsImmediately ==
    [][(FromCC /\ results = <<>>) =>
          /\ fs' = fs
          /\ feature_class_path' = <<>>
          /\ dst' = dst
          /\ pc' = "idle"
          /\ m_pc' \in {"query", "finally", "returned", "raised"}
          /\ (m_pc = "finally" /\ m_after = "returned") => m_pc' = "returned"]_vars

C23_Witness ==
    /\ FromCC
    /\ results = <<>>
    /\ m_pc = "returned"
    /\ db_made = 1
    /\ fs[FeatureClassPath(gdb_name)].exists
    /\ fs[FeatureClassPath(gdb_name)].rows # <<>>
    /\ pc = "idle"
    /\ dst = dst0

\* ---- C21
\* C21: within one pass the destination is changed only after both scans
\* have completed, which no later step redoes; an insert or update attempt
\* is made only while no deletion has been attempted; a deletion is
\* attempted only after every source record had its attempt; and the
\* deletion pass starts after the upsert loop, at the first destination row.
C21_ScansThenUpsertsThenDeletes ==
    [][/\ dst' # dst =>
             /\ pc \in {"upsert", "delete"}
             /\ dic_dst' = dic_dst /\ dic_src' = dic_src
       /\ i' = i + 1 =>
             /\ pc = "upsert"
             /\ delete_count = 0 /\ delete_error_log = 0 /\ j = 1
       /\ (delete_count' > delete_count \/ delete_error_log' > delete_error_log) =>
             /\ pc = "delete"
             /\ i = Len(dic_src) + 1
             /\ success_count + fail_count = Len(dic_src)
             /\ i' = i
       /\ (pc # "delete" /\ pc' = "delete") =>
             /\ pc = "upsert"
             /\ j' = 1
             /\ i = Len(dic_src) + 1]_vars

\* a pass that inserted a source row and then, in its deletion pass, deleted
\* a destination row
C21_Witness ==
    /\ pc = "delete"
    /\ run = 1
    /\ inserts >= 1
    /\ delete_count >= 1
    /\ Len(dic_src) = 2

\* ---- C22
\* the destination without its row at position n
WithoutRow(table, n) ==
    [m \in 1..(Len(table) - 1) |-> IF m < n THEN table[m] ELSE table[m + 1]]

\* C22: every step that removes a row from the destination is a step of
\* the deletion pass and removes one row whose composite key was in the
\* destination and is not in the source, so no row of a source key (one
\* inserted earlier in the pass included) is removed; and the deletion pass
\* is entered only when there is such a key.
C22_OnlyDestinationOnlyKeysDeleted ==
    [][/\ Len(dst') < Len(dst) =>
             /\ pc = "delete"
             /\ \E n \in DOMAIN dst :
                   /\ dst' = WithoutRow(dst, n)
                   /\ CompositeKey(dst[n]) \in OnlyInDestination
                   /\ CompositeKey(dst[n]) \notin Keys(src)
       /\ pc' = "delete" => OnlyInDestination # {}]_vars

\* a finished pass that inserted a row, kept it, and deleted another row
C22_Witness ==
    /\ pc = "done"
    /\ run = 1
    /\ inserts = 1
    /\ delete_count = 1
    /\ Keys(dst) \cap OnlyInSource # {}
    /\ Len(dst) < Len(dst0) + inserts
====
